---- MODULE Spec2Model ----
(***************************************************************************)
(* The tracking engine of tracking_solution: Tracker::step (predict, cost  *)
(* matrix, Hungarian assignment, correction, spawn, cull), the Kuhn-Munkres *)
(* solver it calls, and the frame driver that turns labels into the output *)
(* array.                                                                  *)
(*                                                                         *)
(* Reals are fixed point.  A coordinate 1.0 is Unit (10^3), a cost 1.0 is  *)
(* CostOne (10^2), a covariance entry 1.0 is CovOne (10^4), a Kalman gain  *)
(* 1.0 is GainOne (10^3), a time of 1.0 s is Micro (10^6).  Sequences are  *)
(* 1-based: row i of the code is position i+1 here, while the VALUES kept  *)
(* in assign, tr2det and det2tr are the code's 0-based indices, -1 meaning *)
(* none.                                                                   *)
(***************************************************************************)
EXTENDS Integers, Sequences, FiniteSets, TLC

VARIABLES
    max_dist_,   \* Tracker::max_dist_  (Unit)
    alpha_,      \* Tracker::alpha_     (percent)
    max_age_,    \* Tracker::max_age_   (frames)
    next_id_,    \* Tracker::next_id_
    tracks_,     \* Tracker::tracks_    sequence of Track records
    labels_,     \* Tracker::labels_    the labels of the last step
    frame,       \* main: loop index i = number of frames processed
    now,         \* main: frames[i].ts of the last processed frame
    dets,        \* main: frames[i].dets of the last processed frame
    dump,        \* main: the output array, one object per processed frame
    trail,       \* history of the run (ghost): what the last step did inside
    call,        \* hungarian studied alone: its cost, rowsol and total_cost
    pc           \* main: "loop" between two frames, "hungarian" while a
                 \* call of the solver from step has not returned

vars == <<max_dist_, alpha_, max_age_, next_id_, tracks_, labels_,
          frame, now, dets, dump, trail, call, pc>>

-----------------------------------------------------------------------------
(* Fixed point                                                             *)

Unit    == 10^3
CostOne == 10^2
CovOne  == 10^4
GainOne == 10^3
Micro   == 10^6

\* n / d rounded to the nearest integer (d > 0), halves upward
Rnd(n, d) == (2 * n + d) \div (2 * d)

Max(a, b) == IF a >= b THEN a ELSE b
Min(a, b) == IF a <= b THEN a ELSE b

RECURSIVE GCD(_, _)
\* greatest common divisor of a >= 0 and b >= 0, not both 0
GCD(a, b) == IF b = 0 THEN a ELSE GCD(b, a % b)

RECURSIVE SqrtIter(_, _, _)
\* largest r in lo..hi with r*r <= n, by bisection
SqrtIter(n, lo, hi) ==
    IF lo >= hi THEN lo
    ELSE LET mid == (lo + hi + 1) \div 2
         IN  IF mid * mid <= n THEN SqrtIter(n, mid, hi)
                               ELSE SqrtIter(n, lo, mid - 1)

ISqrt(n) == SqrtIter(n, 0, IF n < 2^24 THEN 2^12 - 1 ELSE 46340)

-----------------------------------------------------------------------------
(* Detections and rectangles: records [x, y, w, h] in Unit                 *)

Rect(x, y, w, h) == [x |-> x, y |-> y, w |-> w, h |-> h]

\* Tracker::centre_dist: hypot of the centre offsets, in Unit.  Centres are
\* kept doubled (2x + w) so that halves stay integers, and the root is rounded
\* up, so that dist > max_dist_ is decided exactly for a whole max_dist_.
centre_dist(d, t) ==
    LET cx_d == 2 * d.x + d.w
        cy_d == 2 * d.y + d.h
        cx_t == 2 * t.rect.x + t.rect.w
        cy_t == 2 * t.rect.y + t.rect.h
        dx   == cx_d - cx_t
        dy   == cy_d - cy_t
        d2   == dx * dx + dy * dy
        r    == ISqrt(d2)
        up   == IF r * r = d2 THEN r ELSE r + 1
    IN  (up + 1) \div 2

\* Tracker::iou: |intersection| / |union| in Unit (rounded down, so that
\* iou < 0.01 is decided exactly), 0 when the union is not positive.  The
\* areas are in Unit^2.
inter_area(t, d) ==
    LET x1 == Max(t.rect.x, d.x)
        y1 == Max(t.rect.y, d.y)
        x2 == Min(t.rect.x + t.rect.w, d.x + d.w)
        y2 == Min(t.rect.y + t.rect.h, d.y + d.h)
    IN  Max(0, x2 - x1) * Max(0, y2 - y1)

union_area(t, d) == t.rect.w * t.rect.h + d.w * d.h - inter_area(t, d)

iou(t, d) ==
    IF union_area(t, d) > 0
    THEN (inter_area(t, d) * Unit) \div union_area(t, d)
    ELSE 0

\* Tracker::det2meas
det2meas(d) == Rect(d.x, d.y, d.w, d.h)

-----------------------------------------------------------------------------
(* The Kalman filter of one track.  The 8-D state is the tuple             *)
(* <<x, y, vx, vy, w, h, vw, vh>> (code index k is position k+1).  F, Q, H, *)
(* R and the initial covariance all have the same 2x2 block on the pairs   *)
(* (0,2), (1,3), (4,6), (5,7) and nothing across pairs, so the 8x8         *)
(* covariance is four copies of one symmetric block; P keeps that block as *)
(* [pp, pv, vv] in CovOne.                                                 *)

SigmaSq  == 100     \* set_Q's s = 1e-2, in CovOne
MeasNoise == 100    \* measurementNoiseCov = eye * 1e-2, in CovOne

At(m, k) == m[k + 1]

\* the time step without the replacement of a dt that is not positive
GuardDt_Unguarded(ts, last_ts) ==
    LET dt == ts - last_ts
        g  == GCD(IF dt < 0 THEN 0 - dt ELSE dt, Micro)
    IN  [num |-> dt \div g, den |-> Micro \div g]

\* the time step of Tracker::step's predict loop: dt = ts - last_ts, replaced
\* by 1e-6 when it is not positive.  Seconds as a rational [num, den] in
\* lowest terms.
GuardDt(ts, last_ts) ==
    LET dt == ts - last_ts
        g  == GCD(dt, Micro)
    IN  IF dt <= 0 THEN [num |-> 1, den |-> Micro]
        ELSE [num |-> dt \div g, den |-> Micro \div g]

\* v * dt
MulDt(v, dt) == Rnd(v * dt.num, dt.den)

\* Tracker::set_Q: the block of Q(dt, s)
set_Q(dt) ==
    LET dt2s == MulDt(MulDt(SigmaSq, dt), dt)
        dt3s == MulDt(dt2s, dt)
        dt4s == MulDt(dt3s, dt)
    IN  [pp |-> Rnd(dt4s, 4), pv |-> Rnd(dt3s, 2), vv |-> dt2s]

\* Tracker::set_F followed by statePre = F * statePost
TransitionState(x, dt) ==
    << At(x, 0) + MulDt(At(x, 2), dt),
       At(x, 1) + MulDt(At(x, 3), dt),
       At(x, 2),
       At(x, 3),
       At(x, 4) + MulDt(At(x, 6), dt),
       At(x, 5) + MulDt(At(x, 7), dt),
       At(x, 6),
       At(x, 7) >>

\* errorCovPre = F * P * F' + Q on the block
TransitionCov(P, dt) ==
    LET Q == set_Q(dt)
    IN  [pp |-> P.pp + 2 * MulDt(P.pv, dt) + MulDt(MulDt(P.vv, dt), dt) + Q.pp,
         pv |-> P.pv + MulDt(P.vv, dt) + Q.pv,
         vv |-> P.vv + Q.vv]

\* cv::KalmanFilter::predict with F and Q set for dt
kf_predict(kf, dt) ==
    [x |-> TransitionState(kf.x, dt), P |-> TransitionCov(kf.P, dt)]

\* the gain K = P H' (H P H' + R)^-1 on the block, in GainOne
Gain(P) ==
    LET S == P.pp + MeasNoise
    IN  [p |-> Rnd(P.pp * GainOne, S), v |-> Rnd(P.pv * GainOne, S)]

\* cv::KalmanFilter::correct with measurement z = [x, y, w, h]
kf_correct(kf, z) ==
    LET K  == Gain(kf.P)
        x  == kf.x
        yx == z.x - At(x, 0)
        yy == z.y - At(x, 1)
        yw == z.w - At(x, 4)
        yh == z.h - At(x, 5)
    IN  [x |-> << At(x, 0) + Rnd(K.p * yx, GainOne),
                  At(x, 1) + Rnd(K.p * yy, GainOne),
                  At(x, 2) + Rnd(K.v * yx, GainOne),
                  At(x, 3) + Rnd(K.v * yy, GainOne),
                  At(x, 4) + Rnd(K.p * yw, GainOne),
                  At(x, 5) + Rnd(K.p * yh, GainOne),
                  At(x, 6) + Rnd(K.v * yw, GainOne),
                  At(x, 7) + Rnd(K.v * yh, GainOne) >>,
         P |-> [pp |-> kf.P.pp - Rnd(K.p * kf.P.pp, GainOne),
                pv |-> kf.P.pv - Rnd(K.p * kf.P.pv, GainOne),
                vv |-> kf.P.vv - Rnd(K.v * kf.P.pv, GainOne)]]

\* Tracker::create_kf: state (d.x, d.y, 0, 0, d.w, d.h, 0, 0), covariance I
create_kf(d) ==
    [x |-> << d.x, d.y, 0, 0, d.w, d.h, 0, 0 >>,
     P |-> [pp |-> CovOne, pv |-> 0, vv |-> CovOne]]

\* the rectangle read from state indices (0, 1, 4, 5)
StateRect(x) == Rect(At(x, 0), At(x, 1), At(x, 4), At(x, 5))

-----------------------------------------------------------------------------
(* hungarian(cost, rowsol, total_cost): the Kuhn-Munkres solver.  cost is a *)
(* sequence of n rows of n entries.  u, v, p, way, minv, used are functions *)
(* on 0..n as in the code (vectors of n+1 entries, value-initialised).     *)

Inf == 2000000000   \* std::numeric_limits<double>::infinity()

\* a double that is not a number (std::stod("nan"), or what arithmetic on it
\* gives); every "<" with it on either side is false
NaN == 0 - 2^30

\* the scan with "cur <= minv[j]" for "cur < minv[j]"
RECURSIVE ScanColumns_OrEqual(_, _, _, _, _)
ScanColumns_OrEqual(cost, n, h, i0, j) ==
    IF j > n THEN h
    ELSE IF h.used[j] THEN ScanColumns_OrEqual(cost, n, h, i0, j + 1)
    ELSE LET cur  == IF cost[i0][j] = NaN THEN NaN
                      ELSE cost[i0][j] - h.u[i0] - h.v[j]
             low  == cur # NaN /\ cur <= h.minv[j]
             minv == IF low THEN [h.minv EXCEPT ![j] = cur] ELSE h.minv
             way  == IF low THEN [h.way EXCEPT ![j] = h.j0] ELSE h.way
             less == minv[j] < h.delta
         IN  ScanColumns_OrEqual(cost, n,
                 [h EXCEPT !.minv = minv, !.way = way,
                           !.delta = IF less THEN minv[j] ELSE h.delta,
                           !.j1 = IF less THEN j ELSE h.j1],
                 i0, j + 1)

\* the scan with the "j1 = j" left out
RECURSIVE ScanColumns_NoChoice(_, _, _, _, _)
ScanColumns_NoChoice(cost, n, h, i0, j) ==
    IF j > n THEN h
    ELSE IF h.used[j] THEN ScanColumns_NoChoice(cost, n, h, i0, j + 1)
    ELSE LET cur  == IF cost[i0][j] = NaN THEN NaN
                      ELSE cost[i0][j] - h.u[i0] - h.v[j]
             low  == cur # NaN /\ cur < h.minv[j]
             minv == IF low THEN [h.minv EXCEPT ![j] = cur] ELSE h.minv
             way  == IF low THEN [h.way EXCEPT ![j] = h.j0] ELSE h.way
             less == minv[j] < h.delta
         IN  ScanColumns_NoChoice(cost, n,
                 [h EXCEPT !.minv = minv, !.way = way,
                           !.delta = IF less THEN minv[j] ELSE h.delta],
                 i0, j + 1)

\* for(j=1..n) if(!used[j]) { cur, minv, way, delta, j1 }: one pass of the scan
RECURSIVE ScanColumns(_, _, _, _, _)
ScanColumns(cost, n, h, i0, j) ==
    IF j > n THEN h
    ELSE IF h.used[j] THEN ScanColumns(cost, n, h, i0, j + 1)
    ELSE LET cur  == IF cost[i0][j] = NaN THEN NaN
                      ELSE cost[i0][j] - h.u[i0] - h.v[j]
             low  == cur # NaN /\ cur < h.minv[j]
             minv == IF low THEN [h.minv EXCEPT ![j] = cur] ELSE h.minv
             way  == IF low THEN [h.way EXCEPT ![j] = h.j0] ELSE h.way
             less == minv[j] < h.delta
         IN  ScanColumns(cost, n,
                 [h EXCEPT !.minv = minv, !.way = way,
                           !.delta = IF less THEN minv[j] ELSE h.delta,
                           !.j1 = IF less THEN j ELSE h.j1],
                 i0, j + 1)

\* the potential update with "v[j] -= delta" left out
RECURSIVE ShiftPotentials_RowsOnly(_, _, _)
ShiftPotentials_RowsOnly(n, h, j) ==
    IF j > n THEN h
    ELSE IF h.used[j]
         THEN ShiftPotentials_RowsOnly(n,
                  [h EXCEPT !.u = [h.u EXCEPT ![h.p[j]] = @ + h.delta]],
                  j + 1)
         ELSE ShiftPotentials_RowsOnly(n,
                  [h EXCEPT !.minv = [h.minv EXCEPT ![j] =
                                          IF @ = Inf THEN Inf ELSE @ - h.delta]],
                  j + 1)

\* for(j=0..n) { if(used[j]) { u[p[j]] += delta; v[j] -= delta; }
\*               else minv[j] -= delta; }
\* (a minv[j] no scan has lowered is still infinite, and stays so)
RECURSIVE ShiftPotentials(_, _, _)
ShiftPotentials(n, h, j) ==
    IF j > n THEN h
    ELSE IF h.used[j]
         THEN ShiftPotentials(n,
                  [h EXCEPT !.u = [h.u EXCEPT ![h.p[j]] = @ + h.delta],
                            !.v = [h.v EXCEPT ![j] = @ - h.delta]],
                  j + 1)
         ELSE ShiftPotentials(n,
                  [h EXCEPT !.minv = [h.minv EXCEPT ![j] =
                                          IF @ = Inf THEN Inf ELSE @ - h.delta]],
                  j + 1)

\* do { used[j0] = true; ...; j0 = j1; } while (p[j0] != 0)
\* When the scan finds no column (every cur of an unused column is NaN, so
\* delta stays infinite and j1 stays 0), the update adds infinity to u and
\* leaves inf - inf = NaN in minv, j0 becomes 0 again with p[0] = i # 0, and
\* every later pass is the same: the loop never ends (spin).
RECURSIVE SearchColumn(_, _, _)
SearchColumn(cost, n, h) ==
    LET h1 == [h EXCEPT !.used = [h.used EXCEPT ![h.j0] = TRUE],
                        !.delta = Inf, !.j1 = 0,
                        !.searches = @ + 1]
        Rest(h2) ==
            LET h3 == ShiftPotentials(n, h2, 0)
                h4 == [h3 EXCEPT !.j0 = h3.j1]
            IN  IF h2.j1 = 0 THEN [h2 EXCEPT !.spin = TRUE]
                ELSE IF h4.p[h4.j0] # 0 THEN SearchColumn(cost, n, h4) ELSE h4
    IN  Rest(ScanColumns(cost, n, h1, h1.p[h1.j0], 1))

\* the augmenting loop run once: "if" for "do ... while (j0)"
Augment_OneStep(h) ==
    [h EXCEPT !.p = [h.p EXCEPT ![h.j0] = h.p[h.way[h.j0]]], !.j0 = h.way[h.j0]]

\* do { j1 = way[j0]; p[j0] = p[j1]; j0 = j1; } while (j0)
RECURSIVE Augment(_)
Augment(h) ==
    LET j1 == h.way[h.j0]
        h1 == [h EXCEPT !.p = [h.p EXCEPT ![h.j0] = h.p[j1]], !.j0 = j1,
                        !.hops = @ + 1]
    IN  IF j1 # 0 THEN Augment(h1) ELSE h1

\* for(i=1..n): insert row i
RECURSIVE InsertRows(_, _, _, _)
InsertRows(cost, n, h, i) ==
    IF i > n \/ h.spin THEN h
    ELSE LET h0 == [h EXCEPT !.p = [h.p EXCEPT ![0] = i], !.j0 = 0,
                             !.minv = [j \in 0..n |-> Inf],
                             !.used = [j \in 0..n |-> FALSE]]
             Rest(h1) == IF h1.spin THEN h1
                         ELSE InsertRows(cost, n, Augment(h1), i + 1)
         IN  Rest(SearchColumn(cost, n, h0))

\* searches and hops count the passes of the two do-while loops over the
\* whole call
HungarianRun(cost) ==
    LET n == Len(cost)
    IN  InsertRows(cost, n,
            [u |-> [j \in 0..n |-> 0], v |-> [j \in 0..n |-> 0],
             p |-> [j \in 0..n |-> 0], way |-> [j \in 0..n |-> 0],
             minv |-> [j \in 0..n |-> Inf], used |-> [j \in 0..n |-> FALSE],
             j0 |-> 0, j1 |-> 0, delta |-> Inf, spin |-> FALSE,
             searches |-> 0, hops |-> 0],
            1)

\* a rowsol that gives every row the first column
RowsolOf_FirstColumn(n, p) == [i \in 1..n |-> 0]

\* a rowsol that gives row i the column i, whatever the costs
RowsolOf_Diagonal(n, p) == [i \in 1..n |-> i - 1]

\* rowsol.assign(n, -1); for(j=1..n) if(p[j]) rowsol[p[j]-1] = j-1;
\* the last j wins when two columns name the same row
RowsolOf(n, p) ==
    [i \in 1..n |->
        IF \E j \in 1..n : p[j] = i
        THEN (CHOOSE j \in 1..n : p[j] = i /\ \A k \in (j + 1)..n : p[k] # i) - 1
        ELSE -1]

\* returns: the call comes back (it does for every matrix of finite cells)
hungarian(cost) ==
    LET Out(r) ==
            IF r.spin THEN [rowsol |-> << >>, total_cost |-> 0, returns |-> FALSE]
            ELSE [rowsol |-> RowsolOf(Len(cost), r.p), total_cost |-> 0 - r.v[0],
                  returns |-> TRUE]
    IN  Out(HungarianRun(cost))

-----------------------------------------------------------------------------
(* Tracker::step                                                           *)

BIG == 10^6 * CostOne     \* const double BIG = 1e6
IouGate == Unit \div 100  \* the 0.01 of "if (i < 0.01) continue"

\* a spawned track that starts with age 1
NewTrack_Aged(id, d, ts) ==
    [id |-> id, kf |-> create_kf(d), rect |-> det2meas(d), last_ts |-> ts,
     age |-> 1, time_since_update |-> 0]

NewTrack(id, d, ts) ==
    [id |-> id, kf |-> create_kf(d), rect |-> det2meas(d), last_ts |-> ts,
     age |-> 0, time_since_update |-> 0]

\* the predict loop with a "tr.last_ts = ts" added
PredictTrack_Restamp(tr, ts) ==
    LET pred == kf_predict(tr.kf, GuardDt(ts, tr.last_ts))
    IN  [tr EXCEPT !.kf = pred,
                   !.rect = StateRect(pred.x),
                   !.last_ts = ts,
                   !.age = @ + 1,
                   !.time_since_update = @ + 1]

\* the predict loop with the "tr.age++" left out
PredictTrack_NoAge(tr, ts) ==
    LET pred == kf_predict(tr.kf, GuardDt(ts, tr.last_ts))
    IN  [tr EXCEPT !.kf = pred,
                   !.rect = StateRect(pred.x),
                   !.time_since_update = @ + 1]

\* the predict loop with the "++tr.time_since_update" left out
PredictTrack_NoMiss(tr, ts) ==
    LET pred == kf_predict(tr.kf, GuardDt(ts, tr.last_ts))
    IN  [tr EXCEPT !.kf = pred,
                   !.rect = StateRect(pred.x),
                   !.age = @ + 1]

\* the body of the predict loop for one track
PredictTrack(tr, ts) ==
    LET pred == kf_predict(tr.kf, GuardDt(ts, tr.last_ts))
    IN  [tr EXCEPT !.kf = pred,
                   !.rect = StateRect(pred.x),
                   !.age = @ + 1,
                   !.time_since_update = @ + 1]

\* one cell of the real (track, detection) part of the matrix: BIG unless the
\* pair passes both gates
PairCost(tr, d) ==
    LET dist == centre_dist(d, tr)
        i    == iou(tr, d)
    IN  IF dist > max_dist_ THEN BIG
        ELSE IF i < IouGate THEN BIG
        ELSE IF alpha_ = NaN THEN NaN
        ELSE Rnd(alpha_ * (Unit - i) + (100 - alpha_) * dist,
                 100 * (Unit \div CostOne))

\* the matrix with the padded rows and columns left at BIG
CostMatrix_PadBig(trks, ds) ==
    LET nT == Len(trks)
        nD == Len(ds)
        N  == Max(nT, nD)
    IN  [i \in 1..N |-> [j \in 1..N |->
            IF i > nT \/ j > nD THEN BIG ELSE PairCost(trks[i], ds[j])]]

\* the N x N matrix: real cells, then rows nT.. and columns nD.. set to 0
CostMatrix(trks, ds) ==
    LET nT == Len(trks)
        nD == Len(ds)
        N  == Max(nT, nD)
    IN  [i \in 1..N |-> [j \in 1..N |->
            IF i > nT \/ j > nD THEN 0 ELSE PairCost(trks[i], ds[j])]]

\* the filter with the "cost[i][j] < BIG" test left out
RealMatch_NoCostTest(cost, nD, i, j) == j >= 0 /\ j < nD

\* "if (j >= 0 && j < nD && cost[i][j] < BIG)" for row i (1-based) and its
\* 0-based column j
RealMatch(cost, nD, i, j) ==
    j >= 0 /\ j < nD /\ cost[i][j + 1] # NaN /\ cost[i][j + 1] < BIG

\* tr2det after the filter loop
Tr2Det(cost, assign, nT, nD) ==
    [i \in 1..nT |-> IF RealMatch(cost, nD, i, assign[i]) THEN assign[i] ELSE -1]

\* the filter loop with the "det2tr[j] = i" left out
Det2Tr_NotRecorded(cost, assign, nT, nD) == [j \in 1..nD |-> -1]

\* det2tr after the filter loop: the last row that claims column j wins
Det2Tr(cost, assign, nT, nD) ==
    [j \in 1..nD |->
        LET rows == {i \in 1..nT : assign[i] = j - 1 /\ RealMatch(cost, nD, i, j - 1)}
        IN  IF rows = {} THEN -1
            ELSE (CHOOSE i \in rows : \A k \in rows : k <= i) - 1]

\* the update body with "age = 0" for "time_since_update = 0"
CorrectTrack_AgeReset(tr, d, ts) ==
    LET corr == kf_correct(tr.kf, det2meas(d))
    IN  [tr EXCEPT !.kf = corr,
                   !.rect = StateRect(corr.x),
                   !.last_ts = ts,
                   !.age = 0]

\* the update body with a last_ts one second ahead of the frame
CorrectTrack_StampAhead(tr, d, ts) ==
    LET corr == kf_correct(tr.kf, det2meas(d))
    IN  [tr EXCEPT !.kf = corr,
                   !.rect = StateRect(corr.x),
                   !.last_ts = ts + Micro,
                   !.time_since_update = 0]

\* the body of the update loop for a matched track
CorrectTrack(tr, d, ts) ==
    LET corr == kf_correct(tr.kf, det2meas(d))
    IN  [tr EXCEPT !.kf = corr,
                   !.rect = StateRect(corr.x),
                   !.last_ts = ts,
                   !.time_since_update = 0]

UpdateTracks(trks, ds, tr2det, ts) ==
    [i \in 1..Len(trks) |->
        IF tr2det[i] # -1 THEN CorrectTrack(trks[i], ds[tr2det[i] + 1], ts)
                          ELSE trks[i]]

\* the spawn loop with "tr.id = tracks_.size()" for "tr.id = next_id_++"
RECURSIVE SpawnFrom_IdFromSize(_, _, _, _, _)
SpawnFrom_IdFromSize(s, ds, det2tr, ts, di) ==
    IF di > Len(ds) THEN s
    ELSE IF det2tr[di] = -1
         THEN SpawnFrom_IdFromSize(
                  [tracks  |-> Append(s.tracks, NewTrack(Len(s.tracks), ds[di], ts)),
                   next_id |-> s.next_id + 1],
                  ds, det2tr, ts, di + 1)
         ELSE SpawnFrom_IdFromSize(s, ds, det2tr, ts, di + 1)

\* the spawn loop with "tr.id = next_id_" for "tr.id = next_id_++"
RECURSIVE SpawnFrom_NoIncrement(_, _, _, _, _)
SpawnFrom_NoIncrement(s, ds, det2tr, ts, di) ==
    IF di > Len(ds) THEN s
    ELSE IF det2tr[di] = -1
         THEN SpawnFrom_NoIncrement(
                  [s EXCEPT !.tracks = Append(@, NewTrack(s.next_id, ds[di], ts))],
                  ds, det2tr, ts, di + 1)
         ELSE SpawnFrom_NoIncrement(s, ds, det2tr, ts, di + 1)

\* the spawn loop from detection di on: s = [tracks, next_id]
RECURSIVE SpawnFrom(_, _, _, _, _)
SpawnFrom(s, ds, det2tr, ts, di) ==
    IF di > Len(ds) THEN s
    ELSE IF det2tr[di] = -1
         THEN SpawnFrom(
                  [tracks  |-> Append(s.tracks, NewTrack(s.next_id, ds[di], ts)),
                   next_id |-> s.next_id + 1],
                  ds, det2tr, ts, di + 1)
         ELSE SpawnFrom(s, ds, det2tr, ts, di + 1)

\* det2tr once the spawn loop has recorded, for every unclaimed detection, the
\* index of the track appended for it (the unclaimed detections get the
\* indices nT, nT + 1, ... in detection order)
LabelIndex(det2tr, nT) ==
    [j \in 1..Len(det2tr) |->
        IF det2tr[j] # -1 THEN det2tr[j]
        ELSE nT + Cardinality({k \in 1..(j - 1) : det2tr[k] = -1})]

\* the labels a step returns: one per detection j with det2tr[j] # -1, in
\* detection order, carrying the id of tracks[det2tr[j]] and the raw detection
EmitLabels(trks, ds, det2tr) ==
    LET Lab(j) == [track_id |-> trks[det2tr[j] + 1].id, det |-> ds[j]]
        F[j \in 0..Len(ds)] ==
            IF j = 0 THEN << >>
            ELSE IF det2tr[j] # -1 THEN Append(F[j - 1], Lab(j)) ELSE F[j - 1]
    IN  F[Len(ds)]

\* the remove_if with "> max_age_ + 1" and with ">= max_age_" for "> max_age_"
Stale_OneLate(t) == t.time_since_update > max_age_ + 1

Stale_OneEarly(t) == t.time_since_update >= max_age_

\* the remove_if with its test inverted
Stale_Inverted(t) == ~(t.time_since_update > max_age_)

\* the remove_if reading the track's age for its time_since_update
Stale_ByAge(t) == t.age > max_age_

\* the predicate of the remove_if
Stale(t) == t.time_since_update > max_age_

Cull(trks) == SelectSeq(trks, LAMBDA t : ~Stale(t))

\* everything one call of step computes
StepRun(ts, ds) ==
    LET pred    == [i \in 1..Len(tracks_) |-> PredictTrack(tracks_[i], ts)]
        nT      == Len(pred)
        nD      == Len(ds)
        cost    == CostMatrix(pred, ds)
        Rest(solved) ==
            LET assign  == solved.rowsol
                tr2det  == Tr2Det(cost, assign, nT, nD)
                det2tr  == Det2Tr(cost, assign, nT, nD)
                updated == UpdateTracks(pred, ds, tr2det, ts)
                spawned == SpawnFrom([tracks |-> updated, next_id |-> next_id_],
                                     ds, det2tr, ts, 1)
            IN  IF solved.returns
                THEN [returns |-> TRUE,
                      pred |-> pred, cost |-> cost, assign |-> assign,
                      tr2det |-> tr2det, det2tr |-> det2tr,
                      full |-> spawned.tracks, next_id |-> spawned.next_id,
                      labels |-> EmitLabels(spawned.tracks, ds,
                                            LabelIndex(det2tr, nT)),
                      tracks |-> Cull(spawned.tracks)]
                ELSE [returns |-> FALSE, pred |-> pred, cost |-> cost]
    IN  Rest(hungarian(cost))

-----------------------------------------------------------------------------
(* The frame driver (main): one step per frame, one output object per frame *)

\* An ISO timestamp "YYYY-MM-DDTHH:MM:SS.ffffff" is the record [sec, micros]:
\* sec is the second the calendar part names, counted from the epoch, and
\* micros the integer its digits after the dot spell.

\* parse_iso: timegm of the calendar part plus the fraction
parse_iso(s) == s.sec * Micro + s.micros

\* static_cast<std::time_t>(sec): the fraction is cut off, towards zero
TimeT(sec) == IF sec >= 0 THEN sec \div Micro ELSE 0 - ((0 - sec) \div Micro)

\* format_iso: the calendar part is gmtime of the truncated seconds, the
\* digits after the dot are int(frac * 1e6 + 0.5) with frac = sec - t; the
\* int conversion truncates towards zero as well
format_iso(sec) ==
    LET ti   == TimeT(sec)
        frac == sec - ti * Micro
    IN  [sec |-> ti, micros |-> IF frac < 0 THEN frac + 1 ELSE frac]

\* the body of load_frames for one JSON frame f = [timestamp, detections]
LoadFrame(f) ==
    [ts   |-> parse_iso(f.timestamp),
     dets |-> [k \in 1..Len(f.detections) |->
                 Rect(f.detections[k].x, f.detections[k].y,
                      f.detections[k].w, f.detections[k].h)]]

\* the JSON entry of one label
Entry(L) == [id |-> L.track_id, x |-> L.det.x, y |-> L.det.y,
             w |-> L.det.w, h |-> L.det.h]

\* the entry with x and y written to each other's key
Entry_XYSwapped(L) == [id |-> L.track_id, x |-> L.det.y, y |-> L.det.x,
                       w |-> L.det.w, h |-> L.det.h]

\* the label loop writing Entry_XYSwapped
OutputObject_XYSwapped(ts, labels) ==
    IF labels = << >> THEN [timestamp |-> format_iso(ts)]
    ELSE [timestamp |-> format_iso(ts),
          tracks |-> [k \in 1..Len(labels) |-> Entry_XYSwapped(labels[k])]]

\* the label loop walking the labels back to front
OutputObject_Reversed(ts, labels) ==
    IF labels = << >> THEN [timestamp |-> format_iso(ts)]
    ELSE [timestamp |-> format_iso(ts),
          tracks |-> [k \in 1..Len(labels) |-> Entry(labels[Len(labels) + 1 - k])]]

\* the object main builds from a frame's labels: "timestamp", and "tracks"
\* with one entry per label in label order; obj["tracks"] comes into being
\* with the first push_back, so a frame without labels has no "tracks" key
OutputObject(ts, labels) ==
    IF labels = << >> THEN [timestamp |-> format_iso(ts)]
    ELSE [timestamp |-> format_iso(ts),
          tracks |-> [k \in 1..Len(labels) |-> Entry(labels[k])]]

-----------------------------------------------------------------------------
(* Inputs and bounds                                                       *)

MaxFrames == 3      \* frames fed to one engine
MaxDets   == 2      \* detections per frame

\* the rectangles a detector reports, by what Tracker::step's gates make of
\* them (max_dist_ = 0.15):
\*   A - A2: centres 0.071 apart, IoU 0.156: allowed
\*   A - X : centres 0.150 apart, IoU 0 (they only touch): gated by IoU alone
\*   A2 - X: centres 0.157 apart, IoU 0.0101: gated by distance alone
DetA  == Rect(100, 100, 100, 100)
DetA2 == Rect(110, 30, 100, 100)
DetX  == Rect(200, 100, 200, 100)
DetPool == {DetA, DetA2, DetX}

\* three rectangles whose numbers are exact in binary:
\*   Sq - Half : centres 0.0625 apart, IoU 0.5
\*   Sq - Wide : centres 0.125 apart,  IoU 0.5
\*   Half - Wide: centres 0.1398 apart, IoU 0.25: gated by distance at 0.13
DetSq   == Rect(250, 250, 250, 250)
DetHalf == Rect(250, 250, 250, 125)
DetWide == Rect(250, 250, 500, 250)
AlphaPool == {DetSq, DetHalf, DetWide}

\* a detection of width 0, as the JSON reader hands it on
DetBad   == Rect(100, 100, 0, 100)
OpenPool == {DetA, DetBad}

\* timestamps as the reader accepts them: half a second back, the same
\* instant again, or a second on (the first frame is at or next to the epoch)
OpenSteps == {0 - (Micro \div 2), 0, Micro}

\* the detection lists of a frame: up to MaxDets distinct rectangles, any order
ListsOver(pool) ==
    {ds \in UNION {[1..n -> pool] : n \in 0..MaxDets} :
        \A a, b \in 1..Len(ds) : a # b => ds[a] # ds[b]}

DetLists == ListsOver(DetPool)

\* the time from one frame's timestamp to the next
TimeSteps == {Micro}

\* the ISO timestamp that names the time t
StampOf(t) == [sec |-> (t - (t % Micro)) \div Micro, micros |-> t % Micro]

\* construction parameters: --max-dist 0.15, --alpha 0.7, --max-age -1, 0 or 1
MaxDistChoices == {150}
AlphaChoices   == {70}
MaxAgeChoices  == {-1, 0, 1}

\* the ends of the documented range of alpha, and "--alpha nan"
AlphaEnds == {0, 100, NaN}

-----------------------------------------------------------------------------
(* History of the run                                                      *)

Ids(labels) == {labels[k].track_id : k \in 1..Len(labels)}

\* the ids of the tracks a step appended, in the order it appended them
NewIds(r) ==
    [k \in 1..(Len(r.full) - Len(r.pred)) |-> r.full[Len(r.pred) + k].id]

\* stamps:      the "timestamp" of every input frame so far, in input order
\* created:     the id of every track ever appended, in order
\* seen:        for every id ever emitted, the last frame index that emitted it
\* gaps:        for the ids the last step emitted again, <<id, frames since>>
\* next_before: next_id_ when the last step began
\* pred:        the tracks of the last step right after its predict loop
\* cost:        the matrix the last step handed to hungarian
\* tr2det, det2tr: the last step's real matches (0-based, -1 for none)
\* full:        the tracks of the last step before its cull
NextTrail(f, r) ==
    [stamps    |-> Append(trail.stamps, f.timestamp),
     created   |-> trail.created \o NewIds(r),
     seen      |-> [k \in Ids(r.labels) \cup DOMAIN trail.seen |->
                       IF k \in Ids(r.labels) THEN frame ELSE trail.seen[k]],
     gaps      |-> {<<k, frame - trail.seen[k]>> :
                       k \in Ids(r.labels) \cap DOMAIN trail.seen},
     next_before |-> next_id_,
     pred      |-> r.pred,
     cost      |-> r.cost,
     tr2det    |-> r.tr2det,
     det2tr    |-> r.det2tr,
     full      |-> r.full]

-----------------------------------------------------------------------------
(* The state machine                                                       *)

\* no call of hungarian has been set up
NoCall == [cost |-> << >>, rowsol |-> << >>, total_cost |-> 0, done |-> FALSE]

\* main before its loop: the Tracker just constructed, nothing written
Constructed ==
    /\ pc = "loop"
    /\ next_id_ = 0
    /\ tracks_ = << >>
    /\ labels_ = << >>
    /\ frame = 0
    /\ now = 0
    /\ dets = << >>
    /\ dump = << >>
    /\ trail = [stamps |-> << >>, created |-> << >>, seen |-> << >>,
                gaps |-> {}, next_before |-> 0, pred |-> << >>,
                cost |-> << >>,
                tr2det |-> << >>, det2tr |-> << >>, full |-> << >>]

Init ==
    /\ max_dist_ \in MaxDistChoices
    /\ alpha_ \in AlphaChoices
    /\ max_age_ \in MaxAgeChoices
    /\ Constructed
    /\ call = NoCall

\* one iteration of main's loop on the input frame f (loaded by load_frames
\* before the loop): step, then the frame's output object
Frame(f) ==
    \E fr \in {LoadFrame(f)} :
    \E r \in {StepRun(fr.ts, fr.dets)} :
        /\ pc = "loop"
        /\ IF r.returns
           THEN /\ tracks_' = r.tracks
                /\ next_id_' = r.next_id
                /\ labels_' = r.labels
                /\ frame' = frame + 1
                /\ now' = fr.ts
                /\ dets' = fr.dets
                /\ dump' = Append(dump, OutputObject(fr.ts, r.labels))
                /\ trail' = NextTrail(f, r)
                /\ pc' = pc
           ELSE \* step is left inside hungarian for good, after its predict
                \* loop has written the tracks
                /\ tracks_' = r.pred
                /\ pc' = "hungarian"
                /\ now' = fr.ts
                /\ dets' = fr.dets
                /\ trail' = [trail EXCEPT !.pred = r.pred, !.cost = r.cost]
                /\ UNCHANGED <<next_id_, labels_, frame, dump>>
        /\ UNCHANGED <<max_dist_, alpha_, max_age_, call>>

Next ==
    \E step \in TimeSteps, ds \in DetLists :
        /\ frame < MaxFrames
        /\ Frame([timestamp |-> StampOf(now + step), detections |-> ds])

Spec == Init /\ [][Next]_vars

\* the same loop run with --max-dist 0.13 --max-age 1 and alpha at an end of
\* its range or not a number
InitAlpha ==
    /\ max_dist_ = 130
    /\ alpha_ \in AlphaEnds
    /\ max_age_ = 1
    /\ Constructed
    /\ call = NoCall

\* (one frame less than Spec: the cost of a pair needs a track and a frame
\* after the one that created it, and nothing of it depends on later frames)
NextAlpha ==
    \E step \in TimeSteps, ds \in ListsOver(AlphaPool) :
        /\ frame + 1 < MaxFrames
        /\ Frame([timestamp |-> StampOf(now + step), detections |-> ds])

SpecAlpha == InitAlpha /\ [][NextAlpha]_vars

\* the same loop on whatever load_frames returns: no order of the timestamps
\* and no shape of the boxes is checked before step is called
InitOpen ==
    /\ max_dist_ \in MaxDistChoices
    /\ alpha_ \in AlphaChoices
    /\ max_age_ = 1
    /\ Constructed
    /\ call = NoCall

NextOpen ==
    \E step \in OpenSteps, ds \in ListsOver(OpenPool) :
        /\ frame < MaxFrames
        /\ Frame([timestamp |-> StampOf(now + step), detections |-> ds])

SpecOpen == InitOpen /\ [][NextOpen]_vars

\* two rectangles 2 wide and 1 high, centres 1.1 apart, IoU 0.9 / 3.1 = 0.29
DetLong   == Rect(0, 0, 2000, 1000)
DetLongOn == Rect(1100, 0, 2000, 1000)
WidePool  == {DetLong, DetLongOn}

\* --max-dist 0.15 (the default) or 1.5, --alpha 0, 0.7 (the default) or 1:
\* the constructor stores what it is given
WideDistChoices  == {150, 1500}
WideAlphaChoices == {0, 70, 100}

\* the same loop run with a max-dist wider than the default
InitWide ==
    /\ max_dist_ \in WideDistChoices
    /\ alpha_ \in WideAlphaChoices
    /\ max_age_ = 1
    /\ Constructed
    /\ call = NoCall

NextWide ==
    \E step \in TimeSteps, ds \in ListsOver(WidePool) :
        /\ frame + 1 < MaxFrames
        /\ Frame([timestamp |-> StampOf(now + step), detections |-> ds])

SpecWide == InitWide /\ [][NextWide]_vars

-----------------------------------------------------------------------------
(* src/src/Tracker.cpp: the engine with the six-dimensional filter and its  *)
(* own main.  The state is <<x, y, vx, vy, w, h>>: the pairs (0,2), (1,3)   *)
(* have the block of the eight-dimensional filter, w and h have no         *)
(* velocity and one variance S each (the same for both).  The cost matrix, *)
(* the solver, the filter loop and the cull are the code of part_002.      *)

SizeNoise == 1      \* Q(4,4) = Q(5,5) = 1e-4, in CovOne

\* create_kf: state (d.x, d.y, 0, 0, d.w, d.h), covariance I
create_kfCpp(d) ==
    [x |-> << d.x, d.y, 0, 0, d.w, d.h >>,
     P |-> [pp |-> CovOne, pv |-> 0, vv |-> CovOne],
     S |-> CovOne]

\* cv::KalmanFilter::predict with F and Q set for dt
kf_predictCpp(kf, dt) ==
    [x |-> << At(kf.x, 0) + MulDt(At(kf.x, 2), dt),
              At(kf.x, 1) + MulDt(At(kf.x, 3), dt),
              At(kf.x, 2),
              At(kf.x, 3),
              At(kf.x, 4),
              At(kf.x, 5) >>,
     P |-> TransitionCov(kf.P, dt),
     S |-> kf.S + SizeNoise]

\* cv::KalmanFilter::correct with measurement z = [x, y, w, h]
kf_correctCpp(kf, z) ==
    LET K  == Gain(kf.P)
        Ks == Rnd(kf.S * GainOne, kf.S + MeasNoise)
        x  == kf.x
        yx == z.x - At(x, 0)
        yy == z.y - At(x, 1)
        yw == z.w - At(x, 4)
        yh == z.h - At(x, 5)
    IN  [x |-> << At(x, 0) + Rnd(K.p * yx, GainOne),
                  At(x, 1) + Rnd(K.p * yy, GainOne),
                  At(x, 2) + Rnd(K.v * yx, GainOne),
                  At(x, 3) + Rnd(K.v * yy, GainOne),
                  At(x, 4) + Rnd(Ks * yw, GainOne),
                  At(x, 5) + Rnd(Ks * yh, GainOne) >>,
         P |-> [pp |-> kf.P.pp - Rnd(K.p * kf.P.pp, GainOne),
                pv |-> kf.P.pv - Rnd(K.p * kf.P.pv, GainOne),
                vv |-> kf.P.vv - Rnd(K.v * kf.P.pv, GainOne)],
         S |-> kf.S - Rnd(Ks * kf.S, GainOne)]

\* pred.rowRange(0, 4): the first four rows of the state, which are
\* (x, y, vx, vy), read afterwards as [x y w h]
RowRange04(x) == Rect(At(x, 0), At(x, 1), At(x, 2), At(x, 3))

\* the body of the predict loop for one track
PredictTrackCpp(tr, ts) ==
    LET pred == kf_predictCpp(tr.kf, GuardDt(ts, tr.last_ts))
    IN  [tr EXCEPT !.kf = pred,
                   !.rect = RowRange04(pred.x),
                   !.age = @ + 1,
                   !.time_since_update = @ + 1]

\* the body of the update loop for a matched track: rect is the detection
CorrectTrackCpp(tr, d, ts) ==
    [tr EXCEPT !.kf = kf_correctCpp(tr.kf, det2meas(d)),
               !.rect = det2meas(d),
               !.last_ts = ts,
               !.time_since_update = 0]

UpdateTracksCpp(trks, ds, tr2det, ts) ==
    [i \in 1..Len(trks) |->
        IF tr2det[i] # -1 THEN CorrectTrackCpp(trks[i], ds[tr2det[i] + 1], ts)
                          ELSE trks[i]]

NewTrackCpp(id, d, ts) ==
    [id |-> id, kf |-> create_kfCpp(d), rect |-> det2meas(d), last_ts |-> ts,
     age |-> 0, time_since_update |-> 0]

\* the spawn loop from detection di on: s = [tracks, next_id]
RECURSIVE SpawnFromCpp(_, _, _, _, _)
SpawnFromCpp(s, ds, det2tr, ts, di) ==
    IF di > Len(ds) THEN s
    ELSE IF det2tr[di] = -1
         THEN SpawnFromCpp(
                  [tracks  |-> Append(s.tracks, NewTrackCpp(s.next_id, ds[di], ts)),
                   next_id |-> s.next_id + 1],
                  ds, det2tr, ts, di + 1)
         ELSE SpawnFromCpp(s, ds, det2tr, ts, di + 1)

\* everything one call of this step computes; it returns nothing, so there
\* are no labels
StepRunCpp(ts, ds) ==
    LET pred    == [i \in 1..Len(tracks_) |-> PredictTrackCpp(tracks_[i], ts)]
        nT      == Len(pred)
        nD      == Len(ds)
        cost    == CostMatrix(pred, ds)
        Rest(solved) ==
            LET assign  == solved.rowsol
                tr2det  == Tr2Det(cost, assign, nT, nD)
                det2tr  == Det2Tr(cost, assign, nT, nD)
                updated == UpdateTracksCpp(pred, ds, tr2det, ts)
                spawned == SpawnFromCpp([tracks |-> updated, next_id |-> next_id_],
                                        ds, det2tr, ts, 1)
            IN  IF solved.returns
                THEN [returns |-> TRUE,
                      pred |-> pred, cost |-> cost, assign |-> assign,
                      tr2det |-> tr2det, det2tr |-> det2tr,
                      full |-> spawned.tracks, next_id |-> spawned.next_id,
                      labels |-> << >>,
                      tracks |-> Cull(spawned.tracks)]
                ELSE [returns |-> FALSE, pred |-> pred, cost |-> cost]
    IN  Rest(hungarian(cost))

\* save_tracks for one frame: the tracks of the list with their rect
DumpObjectCpp(ts, trks) ==
    IF trks = << >> THEN [timestamp |-> format_iso(ts)]
    ELSE [timestamp |-> format_iso(ts),
          tracks |-> [k \in 1..Len(trks) |->
                        [id |-> trks[k].id,
                         x |-> trks[k].rect.x, y |-> trks[k].rect.y,
                         w |-> trks[k].rect.w, h |-> trks[k].rect.h]]]

\* one iteration of the loop of this main: step, then the list is dumped
FrameCpp(f) ==
    \E fr \in {LoadFrame(f)} :
    \E r \in {StepRunCpp(fr.ts, fr.dets)} :
        /\ pc = "loop"
        /\ IF r.returns
           THEN /\ tracks_' = r.tracks
                /\ next_id_' = r.next_id
                /\ frame' = frame + 1
                /\ now' = fr.ts
                /\ dets' = fr.dets
                /\ dump' = Append(dump, DumpObjectCpp(fr.ts, r.tracks))
                /\ trail' = NextTrail(f, r)
                /\ pc' = pc
           ELSE /\ tracks_' = r.pred
                /\ pc' = "hungarian"
                /\ now' = fr.ts
                /\ dets' = fr.dets
                /\ trail' = [trail EXCEPT !.pred = r.pred, !.cost = r.cost]
                /\ UNCHANGED <<next_id_, frame, dump>>
        /\ UNCHANGED <<max_dist_, alpha_, max_age_, labels_, call>>

\* the defaults of this main but for --max-age 1
InitCpp ==
    /\ max_dist_ \in MaxDistChoices
    /\ alpha_ \in AlphaChoices
    /\ max_age_ = 1
    /\ Constructed
    /\ call = NoCall

NextCpp ==
    \E step \in TimeSteps, ds \in DetLists :
        /\ frame + 1 < MaxFrames
        /\ FrameCpp([timestamp |-> StampOf(now + step), detections |-> ds])

SpecCpp == InitCpp /\ [][NextCpp]_vars

-----------------------------------------------------------------------------
(* hungarian alone: every square matrix up to MaxN rows, solved once       *)

MaxN == 3           \* rows of the matrices given to the solver

\* the costs a cell takes: allowed costs and BIG in the small matrices, fewer
\* values as the number of cells grows
CellValues(n) ==
    IF n <= 2 THEN {0, 30, 50, 70, BIG}
    ELSE IF n = 3 THEN {0, 30, 70}
    ELSE {0, 30}

Matrices == UNION {[1..n -> [1..n -> CellValues(n)]] : n \in 0..MaxN}

InitSolver ==
    /\ max_dist_ \in MaxDistChoices
    /\ alpha_ \in AlphaChoices
    /\ max_age_ = 0
    /\ Constructed
    /\ call \in {[NoCall EXCEPT !.cost = m] : m \in Matrices}

\* hungarian(cost, rowsol, total_cost)
Solve ==
    /\ ~call.done
    /\ \E r \in {hungarian(call.cost)} :
          call' = [call EXCEPT !.rowsol = r.rowsol,
                               !.total_cost = r.total_cost,
                               !.done = TRUE]
    /\ UNCHANGED <<max_dist_, alpha_, max_age_, next_id_, tracks_, labels_,
                   frame, now, dets, dump, trail, pc>>

NextSolver == Solve

SpecSolver == InitSolver /\ [][NextSolver]_vars

-----------------------------------------------------------------------------
(* Properties                                                              *)

\* the pair passes both gates of the cost loop
Allowed(tr, d) == ~(centre_dist(d, tr) > max_dist_) /\ ~(iou(tr, d) < IouGate)

nT_last == Len(trail.pred)
Stepped == frame > 0

\* the detections of the last step that no track claimed, in detection order
Unclaimed == SelectSeq([j \in 1..Len(dets) |-> j], LAMBDA j : trail.det2tr[j] = -1)

\* C1: the k-th track ever created has id k-1, the counter has grown by exactly
\* one per created track, and the tracks one step creates are created in
\* detection order; so no id is allocated twice, also after a cull.
C1_IdsFromOneCounter ==
    /\ next_id_ = Len(trail.created)
    /\ \A k \in 1..Len(trail.created) : trail.created[k] = k - 1
    /\ Len(trail.full) = nT_last + Len(Unclaimed)
    /\ \A k \in 1..Len(Unclaimed) :
          /\ trail.full[nT_last + k].id = trail.next_before + k - 1
          /\ trail.full[nT_last + k].rect = dets[Unclaimed[k]]

\* C1 happens: a track is created after an earlier track has been culled
C1_Witness ==
    /\ Len(trail.full) > nT_last
    /\ \E k \in 1..Len(trail.created) :
          /\ trail.created[k] < trail.next_before
          /\ \A i \in 1..Len(trail.full) : trail.full[i].id # trail.created[k]

\* C2: the tracks in the list have pairwise distinct ids, each at least 0 and
\* below the next id of the counter.
C2_ListIdsDistinct ==
    /\ \A i, j \in 1..Len(tracks_) : i # j => tracks_[i].id # tracks_[j].id
    /\ \A i \in 1..Len(tracks_) : tracks_[i].id >= 0 /\ tracks_[i].id < next_id_

\* C2 happens: the list holds several tracks, one of them older than the step
C2_Witness ==
    /\ Len(tracks_) >= 3
    /\ \E i \in 1..Len(tracks_) : tracks_[i].age >= 1
    /\ \E i \in 1..Len(tracks_) : tracks_[i].age = 0

\* C3: after every step each track of the list has time_since_update at most
\* max_age.
C3_CullBound ==
    \A i \in 1..Len(tracks_) : tracks_[i].time_since_update <= max_age_

\* C3 happens: a step removes a stale track and keeps one that is exactly at
\* the bound
C3_Witness ==
    /\ Len(tracks_) < Len(trail.full)
    /\ \E i \in 1..Len(tracks_) :
          tracks_[i].time_since_update = max_age_ /\ max_age_ >= 1

\* C4: no track is matched with, corrected by or labelled with a detection
\* that fails a gate against the track's predicted rectangle.
C4_GatingRespected ==
    /\ \A i \in 1..nT_last :
          trail.tr2det[i] # -1 => Allowed(trail.pred[i], dets[trail.tr2det[i] + 1])
    /\ \A j \in 1..Len(dets) :
          trail.det2tr[j] # -1 => Allowed(trail.pred[trail.det2tr[j] + 1], dets[j])
    /\ \A i \in 1..nT_last :
          trail.full[i].kf # trail.pred[i].kf =>
              \E j \in 1..Len(dets) :
                  /\ Allowed(trail.pred[i], dets[j])
                  /\ trail.full[i].kf = kf_correct(trail.pred[i].kf, det2meas(dets[j]))
    /\ \A i \in 1..nT_last, k \in 1..Len(labels_) :
          labels_[k].track_id = trail.pred[i].id =>
              Allowed(trail.pred[i], labels_[k].det)

\* C4 happens: in one step a track is matched while a gated pair is on offer,
\* one failing the distance gate alone or the IoU gate alone
C4_Witness ==
    /\ \E i \in 1..nT_last : trail.tr2det[i] # -1
    /\ \E i \in 1..nT_last, j \in 1..Len(dets) :
          /\ trail.tr2det[i] = -1
          /\ trail.det2tr[j] = -1
          /\ ~Allowed(trail.pred[i], dets[j])
          /\ \/ ~(centre_dist(dets[j], trail.pred[i]) > max_dist_)
             \/ ~(iou(trail.pred[i], dets[j]) < IouGate)

\* the track at position i has coasted (it was unmatched in the step before)
\* and detection j passes its gates in the last step
Reappears(i, j) ==
    /\ trail.pred[i].time_since_update >= 2
    /\ Allowed(trail.pred[i], dets[j])

\* nothing else of the frame competes for track i or for detection j
Uncontested(i, j) ==
    /\ \A j2 \in 1..Len(dets) : j2 # j => ~Allowed(trail.pred[i], dets[j2])
    /\ \A i2 \in 1..nT_last : i2 # i => ~Allowed(trail.pred[i2], dets[j])

Reassociated(i, j) ==
    /\ trail.tr2det[i] = j - 1
    /\ trail.det2tr[j] = i - 1
    /\ labels_[j].track_id = trail.pred[i].id
    /\ labels_[j].track_id < trail.next_before

\* every id emitted at most max_age frames ago still has its track
CoastingKept ==
    \A k \in DOMAIN trail.seen :
        frame - 1 - trail.seen[k] <= max_age_ =>
            \E i \in 1..Len(tracks_) : tracks_[i].id = k

\* C5 as stated: a detection that passes the gates of a coasting track is
\* associated with that track and carries its id.
C5_AsStated ==
    \A i \in 1..nT_last, j \in 1..Len(dets) :
        Reappears(i, j) => Reassociated(i, j)

\* C5 amended: a track that has missed at most max_age frames is still in the
\* list, and a detection that passes its gates is associated with it and
\* carries its id when no other detection of the frame passes that track's
\* gates and the detection passes no other track's gates.
C5_OcclusionStability ==
    /\ CoastingKept
    /\ \A i \in 1..nT_last, j \in 1..Len(dets) :
          Reappears(i, j) /\ Uncontested(i, j) => Reassociated(i, j)

\* C5 happens: a coasting track gets its detection back, in a frame that holds
\* another detection and another track
C5_Witness ==
    \E i \in 1..nT_last, j \in 1..Len(dets) :
        /\ Reappears(i, j) /\ Uncontested(i, j) /\ Reassociated(i, j)
        /\ Len(dets) >= 2
        /\ nT_last >= 2

\* C6: an id that is emitted again was last emitted at most max_age + 1 frames
\* before; every other emitted id is newly allocated.
C6_GapBound ==
    /\ \A g \in trail.gaps : g[2] >= 1 /\ g[2] <= max_age_ + 1
    /\ \A k \in Ids(labels_) :
          (\E g \in trail.gaps : g[1] = k) \/ k >= trail.next_before

\* C6 happens: an id comes back after exactly max_age + 1 frames, max_age >= 1
C6_Witness ==
    /\ max_age_ >= 1
    /\ \E g \in trail.gaps : g[2] = max_age_ + 1

\* the (x, y, w, h) of an output entry
EntryRect(e) == Rect(e.x, e.y, e.w, e.h)

LastObject == dump[frame]

\* the entries of the last output object, none when it has no "tracks" key
LastEntries == IF "tracks" \in DOMAIN LastObject THEN LastObject.tracks ELSE << >>

\* ids of the tracks the last step matched or created
AssociatedIds ==
    {trail.pred[i].id : i \in {i \in 1..nT_last : trail.tr2det[i] # -1}}
        \cup {trail.full[i].id : i \in (nT_last + 1)..Len(trail.full)}

C11_Step ==
    /\ Len(trail'.pred) = Len(tracks_)
    /\ \A i \in 1..Len(tracks_) :
          /\ trail'.pred[i].id = tracks_[i].id
          /\ trail'.pred[i].time_since_update = tracks_[i].time_since_update + 1
          /\ trail'.pred[i].rect = StateRect(trail'.pred[i].kf.x)
    /\ tracks_' = SelectSeq(trail'.full,
                            LAMBDA t : ~(t.time_since_update > max_age_))
    /\ \A i \in 1..Len(trail'.full) :
          trail'.full[i].time_since_update > max_age_ =>
              trail'.full[i].time_since_update = Max(max_age_, -1) + 1

N_call == Len(call.cost)

\* the permutations of 0..n-1, as sequences of length n
Perms(n) == {q \in [1..n -> 0..(n - 1)] : \A a, b \in 1..n : a # b => q[a] # q[b]}

\* the sum over the rows i of cost[i][q[i]]
RECURSIVE SumUpTo(_, _, _)
SumUpTo(cost, q, i) ==
    IF i = 0 THEN 0 ELSE SumUpTo(cost, q, i - 1) + cost[i][q[i] + 1]

\* C12: for every N x N matrix of finite non-negative costs, N >= 0, the
\* rowsol hungarian returns has length N and is a permutation of 0..N-1: no
\* entry is -1 and no column is given to two rows.
C12_RowsolPermutation ==
    call.done =>
        /\ Len(call.rowsol) = N_call
        /\ \A i \in 1..N_call : call.rowsol[i] \in 0..(N_call - 1)
        /\ \A i, k \in 1..N_call : i # k => call.rowsol[i] # call.rowsol[k]

\* C12 happens: a full-size matrix whose solution keeps one row on the
\* diagonal and moves another off it
C12_Witness ==
    /\ call.done
    /\ N_call = MaxN
    /\ \E i \in 1..N_call : call.rowsol[i] # i - 1
    /\ \E i \in 1..N_call : call.rowsol[i] = i - 1

\* C13: the rowsol hungarian returns has the least total cost of all
\* permutations of the columns, and total_cost is that total.
C13_Exact ==
    call.done =>
        /\ \A q \in Perms(N_call) :
              SumUpTo(call.cost, call.rowsol, N_call) <= SumUpTo(call.cost, q, N_call)
        /\ call.total_cost = SumUpTo(call.cost, call.rowsol, N_call)

\* C13 happens: a full-size matrix where taking each row's cheapest cell in
\* turn is not possible, and the optimum is dearer than the row minima
C13_Witness ==
    /\ call.done
    /\ N_call = MaxN
    /\ \E i, k \in 1..N_call :
          /\ i # k
          /\ \E j \in 1..N_call :
                /\ \A j2 \in 1..N_call : j2 # j => call.cost[i][j] < call.cost[i][j2]
                /\ \A j2 \in 1..N_call : j2 # j => call.cost[k][j] < call.cost[k][j2]
    /\ SumUpTo(call.cost, call.rowsol, N_call) > 0

\* two tracks of the last step tie for its single detection: both pairs pass
\* the gates and have the same cost
Tie(i, k) ==
    /\ Len(dets) = 1
    /\ Allowed(trail.pred[i], dets[1])
    /\ Allowed(trail.pred[k], dets[1])
    /\ trail.cost[i][1] # NaN
    /\ trail.cost[i][1] = trail.cost[k][1]

\* C14 as stated: when two tracks have the same allowed cost for the single
\* detection of a frame, the track of smaller index is the one matched.
C14_AsStated ==
    (Stepped /\ pc = "loop") =>
        \A i, k \in 1..nT_last :
            (i < k /\ Tie(i, k)) => trail.tr2det[i] = 0

\* C14 amended: when the list holds exactly two tracks and both have the same
\* allowed cost c, 0 < c < BIG, for the single detection of a frame, the
\* track of LARGER index is the one matched and the other is left unmatched.
C14_TieToLastRow ==
    (Stepped /\ pc = "loop" /\ nT_last = 2) =>
        ((Tie(1, 2) /\ trail.cost[1][1] > 0 /\ trail.cost[1][1] < BIG)
            => trail.tr2det = <<-1, 0>>)

\* C14 happens: a step ended in which two tracks tied for the one detection
C14_Witness ==
    /\ Stepped /\ pc = "loop" /\ nT_last = 2
    /\ Tie(1, 2) /\ trail.cost[1][1] > 0 /\ trail.cost[1][1] < BIG
    /\ trail.tr2det = <<-1, 0>>
    /\ trail.pred[1].rect # trail.pred[2].rect

\* C15 as stated: the engine is never stepped with a detection whose width or
\* height is not positive (the driver has rejected the stream before).
C15_AsStated ==
    \A j \in 1..Len(dets) : dets[j].w > 0 /\ dets[j].h > 0

\* C16 as stated: the output array has exactly one object per input frame, in
\* input order, and each object carries the timestamp of its frame, also when
\* the frame left no labels.
C16_AsStated ==
    /\ Len(dump) = frame
    /\ Len(trail.stamps) = frame
    /\ \A k \in 1..Len(dump) : dump[k].timestamp = trail.stamps[k]

\* the timestamps of the frames so far never step back
Monotone ==
    \A k \in 1..(Len(trail.stamps) - 1) :
        parse_iso(trail.stamps[k]) <= parse_iso(trail.stamps[k + 1])

\* C19 as stated: after every step(ts, ...) every track has last_ts <= ts.
C19_AsStated ==
    Stepped => \A i \in 1..Len(tracks_) : tracks_[i].last_ts <= now

\* C19 amended: after every step(ts, ...) of a stream whose timestamps are
\* non-decreasing, every track has last_ts <= ts.
C19_LastTsNotAhead ==
    (Stepped /\ Monotone) => \A i \in 1..Len(tracks_) : tracks_[i].last_ts <= now

\* C19 happens: after a step of a non-decreasing stream one track was updated
\* at the step's timestamp and another was last updated earlier
C19_Witness ==
    /\ frame >= 2 /\ Monotone
    /\ \E i \in 1..Len(tracks_) : tracks_[i].last_ts = now
    /\ \E i \in 1..Len(tracks_) : tracks_[i].last_ts < now

\* the real (track, detection) pairs of the last step that pass both gates
AllowedPairs ==
    {q \in (1..nT_last) \X (1..Len(dets)) : Allowed(trail.pred[q[1]], dets[q[2]])}

\* C17 as stated: with alpha = 0 the cost of an allowed pair depends only on
\* its IoU (pairs of equal IoU have equal cost), and with alpha = 1 it depends
\* only on its centre distance (pairs of equal distance have equal cost).
C17_AsStated ==
    \A q, r \in AllowedPairs :
        /\ (alpha_ = 0 /\ iou(trail.pred[q[1]], dets[q[2]])
                            = iou(trail.pred[r[1]], dets[r[2]]))
              => trail.cost[q[1]][q[2]] = trail.cost[r[1]][r[2]]
        /\ (alpha_ = 100 /\ centre_dist(dets[q[2]], trail.pred[q[1]])
                              = centre_dist(dets[r[2]], trail.pred[r[1]]))
              => trail.cost[q[1]][q[2]] = trail.cost[r[1]][r[2]]

\* the matrix the last step handed to the solver has a cell that is not finite
BadCost ==
    \E i, j \in 1..Len(trail.cost) : trail.cost[i][j] = NaN

\* C18 as stated: when a cost cell is not finite the run is aborted with a
\* diagnostic: main is neither still inside the step nor back in its loop with
\* the step's labels written.
C18_AsStated ==
    BadCost => pc = "aborted"

\* C20: after any sequence of steps every track of the list has
\* age >= time_since_update >= 0.
C20_AgeBounds ==
    \A i \in 1..Len(tracks_) :
        /\ tracks_[i].age >= tracks_[i].time_since_update
        /\ tracks_[i].time_since_update >= 0

\* C20 happens: the list holds a track that was updated and then missed
\* (age > time_since_update > 0) and one just updated after its creation
C20_Witness ==
    /\ \E i \in 1..Len(tracks_) :
          tracks_[i].age > tracks_[i].time_since_update
          /\ tracks_[i].time_since_update > 0
    /\ \E i \in 1..Len(tracks_) :
          tracks_[i].age > 0 /\ tracks_[i].time_since_update = 0

\* what C21 says of one step: the tracks of the list before the step are the
\* first entries of the list the step has before its cull
C21_Step ==
    frame' = frame + 1 =>
    /\ Len(trail'.full) >= Len(tracks_)
    /\ \A i \in 1..Len(tracks_) :
          /\ trail'.full[i].id = tracks_[i].id
          /\ trail'.full[i].age = tracks_[i].age + 1
          /\ IF trail'.tr2det[i] # -1
             THEN /\ trail'.full[i].time_since_update = 0
                  /\ trail'.full[i].last_ts = now'
             ELSE /\ trail'.full[i].time_since_update
                        = tracks_[i].time_since_update + 1
                  /\ trail'.full[i].last_ts = tracks_[i].last_ts

\* C21: in one step every track that existed before it keeps its id and has
\* its age increased by exactly 1; a matched track gets time_since_update 0
\* and last_ts = ts; an unmatched track gets time_since_update + 1 and keeps
\* its last_ts.
C21_TrackTransitions == [][C21_Step]_vars

\* C21 happens: a step has matched one older track and missed another
C21_Witness ==
    /\ frame >= 2
    /\ \E i \in 1..nT_last :
          trail.tr2det[i] # -1 /\ trail.full[i].age >= 2
    /\ \E i \in 1..nT_last :
          trail.tr2det[i] = -1 /\ trail.full[i].time_since_update >= 1

\* the tracks of the last step that got a detection
Matched == {i \in 1..nT_last : trail.tr2det[i] # -1}

\* C22: before its cull the list of a step has nT + (nD - real matches)
\* entries: one new track per detection no track claimed, appended after the
\* existing ones in detection order, with age 0, time_since_update 0,
\* last_ts = ts and the rectangle of its detection.
C22_Spawn ==
    Stepped =>
        /\ Len(trail.full) = nT_last + (Len(dets) - Cardinality(Matched))
        /\ \A i \in Matched : trail.det2tr[trail.tr2det[i] + 1] = i - 1
        /\ \A k \in 1..Len(Unclaimed) :
              /\ nT_last + k <= Len(trail.full)
              /\ trail.full[nT_last + k].age = 0
              /\ trail.full[nT_last + k].time_since_update = 0
              /\ trail.full[nT_last + k].last_ts = now
              /\ trail.full[nT_last + k].rect = dets[Unclaimed[k]]

\* C22 happens: a step with an older track matched one detection and spawned
\* a track from the other
C22_Witness ==
    /\ Stepped
    /\ Len(dets) = 2
    /\ Cardinality(Matched) = 1
    /\ Len(Unclaimed) = 1
    /\ nT_last >= 2

\* the ways to give each detection of the last frame one track it is allowed
\* with (0: none), no track twice
AllowedMatchings ==
    {m \in [1..Len(dets) -> 0..nT_last] :
        /\ \A j \in 1..Len(dets) :
              m[j] # 0 => Allowed(trail.pred[m[j]], dets[j])
        /\ \A j, k \in 1..Len(dets) : (j # k /\ m[j] # 0) => m[j] # m[k]}

MatchingSize(m) == Cardinality({j \in 1..Len(dets) : m[j] # 0})

\* C23: after the filter of a step no allowed (track, detection) pair has
\* both its track and its detection unmatched, and the real matches are a
\* matching of the allowed pairs of the largest size there is.
C23_PaddingStealsNothing ==
    Stepped =>
        /\ \A i \in 1..nT_last, j \in 1..Len(dets) :
              Allowed(trail.pred[i], dets[j]) =>
                  (trail.tr2det[i] # -1 \/ trail.det2tr[j] # -1)
        /\ [j \in 1..Len(dets) |-> trail.det2tr[j] + 1] \in AllowedMatchings
        /\ \A m \in AllowedMatchings : MatchingSize(m) <= Cardinality(Matched)

\* C23 happens: a step had more tracks than detections, matched every
\* detection, and left to the padding a track that was allowed with one of
\* the detections
C23_Witness ==
    /\ Stepped
    /\ nT_last > Len(dets)
    /\ Cardinality(Matched) = 2
    /\ \E i \in 1..nT_last, j \in 1..Len(dets) :
          Allowed(trail.pred[i], dets[j]) /\ trail.tr2det[i] = -1

\* alpha*(1 - iou) + (1 - alpha)*ccd of a pair, in units of 1/CostOne
BlendedCost(tr, d) ==
    Rnd(alpha_ * (Unit - iou(tr, d)) + (100 - alpha_) * centre_dist(d, tr),
        100 * (Unit \div CostOne))

\* C24: the cost matrix of a step is square with N = max(nT, nD); for a track
\* i and a detection j the cell is alpha*(1 - iou) + (1 - alpha)*ccd when the
\* pair passes both gates and BIG otherwise; every cell of a padded row or
\* column is 0.
C24_CostMatrix ==
    Stepped =>
        LET N == Max(nT_last, Len(dets))
        IN  /\ Len(trail.cost) = N
            /\ \A i \in 1..N :
                  /\ Len(trail.cost[i]) = N
                  /\ \A j \in 1..N :
                        trail.cost[i][j] =
                            IF i > nT_last \/ j > Len(dets) THEN 0
                            ELSE IF Allowed(trail.pred[i], dets[j])
                                 THEN BlendedCost(trail.pred[i], dets[j])
                                 ELSE BIG

\* C24 happens: the matrix of a step had padding, a cell with a blended cost
\* above 0 and a cell with BIG
C24_Witness ==
    /\ Stepped
    /\ nT_last # Len(dets)
    /\ \E i \in 1..nT_last, j \in 1..Len(dets) :
          trail.cost[i][j] > 0 /\ trail.cost[i][j] < BIG
    /\ \E i \in 1..nT_last, j \in 1..Len(dets) : trail.cost[i][j] = BIG

\* the tracks a step at ts finds with a last_ts that is not before ts
Regressed(ts) == {i \in 1..Len(tracks_) : ts <= tracks_[i].last_ts}

\* what C25 says of one step
C25_Step ==
    Regressed(now') # {} =>
        /\ pc' = "loop"
        /\ frame' = frame + 1
        /\ Len(dump') = Len(dump) + 1
        /\ \A i \in Regressed(now') :
              trail'.pred[i].kf
                  = kf_predict(tracks_[i].kf, [num |-> 1, den |-> Micro])
        /\ trail'.cost = CostMatrix(trail'.pred, dets')
        /\ Len(trail'.full) >= Len(tracks_)
        /\ \A j \in 1..Len(dets') :
              trail'.det2tr[j] = -1 =>
                  \E k \in (Len(tracks_) + 1)..Len(trail'.full) :
                      trail'.full[k].rect = dets'[j]
        /\ tracks_' = Cull(trail'.full)

\* C25: a step whose ts is equal to or smaller than a track's last_ts is not
\* rejected: the track is predicted with dt = 1e-6, and the step builds its
\* matrix, spawns and culls as in any other step.
C25_RegressionAccepted == [][C25_Step]_vars

\* C25 happens: a step found a track with a later last_ts, matched it, and
\* spawned a track from another detection
C25_Witness ==
    /\ Stepped
    /\ \E i \in 1..nT_last :
          trail.pred[i].last_ts > now /\ trail.tr2det[i] # -1
    /\ \E j \in 1..Len(dets) : trail.det2tr[j] = -1

\* what C27 says of one step
C27_Step ==
    (frame' = frame + 1 /\ dets' = << >>) =>
        /\ next_id_' = next_id_
        /\ labels_' = << >>
        /\ DOMAIN dump'[Len(dump')] = {"timestamp"}
        /\ Len(trail'.full) = Len(tracks_)
        /\ \A i \in 1..Len(tracks_) :
              /\ trail'.full[i].kf = trail'.pred[i].kf
              /\ trail'.full[i].id = tracks_[i].id
              /\ trail'.full[i].last_ts = tracks_[i].last_ts
              /\ trail'.full[i].age = tracks_[i].age + 1
              /\ trail'.full[i].time_since_update
                    = tracks_[i].time_since_update + 1
        /\ tracks_' = SelectSeq(trail'.full,
                                LAMBDA t : t.time_since_update <= max_age_)
        /\ tracks_ = << >> => tracks_' = << >>

\* C27: a step with no detection allocates no id, emits no label and
\* corrects no track; every track keeps its id and last_ts and has age and
\* time_since_update one higher before the cull; with no track either, the
\* step leaves the list empty and the id counter as it was.
C27_EmptyFrame == [][C27_Step]_vars

\* C27 happens: a step with no detection found tracks, culled one and kept
\* another
C27_Witness ==
    /\ Stepped
    /\ dets = << >>
    /\ Len(tracks_) >= 1
    /\ Len(tracks_) < Len(trail.full)

\* C27, the case N = 0: a step with no detection found no track
C27_NothingAtAll ==
    Stepped /\ dets = << >> /\ nT_last = 0 /\ next_id_ > 0

\* C29: the association of one step is one-to-one: no two tracks are matched
\* to the same detection, a matched track is corrected with its one detection
\* and no other track is corrected, each detection is claimed by at most the
\* one track matched to it, and no two labels of the frame carry the same id.
C29_OneToOne ==
    Stepped =>
        /\ \A i, k \in Matched : i # k => trail.tr2det[i] # trail.tr2det[k]
        /\ \A i \in 1..nT_last :
              /\ trail.tr2det[i] \in (-1)..(Len(dets) - 1)
              /\ trail.full[i].kf =
                    IF i \in Matched
                    THEN kf_correct(trail.pred[i].kf,
                                    det2meas(dets[trail.tr2det[i] + 1]))
                    ELSE trail.pred[i].kf
        /\ \A j \in 1..Len(dets) :
              /\ trail.det2tr[j] # -1 => trail.tr2det[trail.det2tr[j] + 1] = j - 1
              /\ trail.det2tr[j] = -1 => \A i \in Matched : trail.tr2det[i] # j - 1
        /\ \A a, b \in 1..Len(labels_) :
              a # b => labels_[a].track_id # labels_[b].track_id

\* C29 happens: a step matched two tracks to the two detections of its frame,
\* and one of the detections was allowed with both of them
C29_Witness ==
    /\ Stepped
    /\ Cardinality(Matched) = 2
    /\ Len(labels_) = 2
    /\ \E j \in 1..Len(dets) :
          \A i \in Matched : Allowed(trail.pred[i], dets[j])

\* the tracks of the last step that were matched or spawned in it
Touched == Matched \cup ((nT_last + 1)..Len(trail.full))

\* C30: the cull runs after correction, spawn and label emission: every id in
\* the labels of a step is the id of a track of the list as it was before the
\* cull, and for max_age >= 0 every track matched or spawned in the step is
\* in the list after the step.
C30_CullLast ==
    Stepped =>
        /\ \A k \in 1..Len(labels_) :
              \E i \in Touched : trail.full[i].id = labels_[k].track_id
        /\ max_age_ >= 0 =>
              \A i \in Touched :
                  \E k \in 1..Len(tracks_) : tracks_[k] = trail.full[i]

\* C30 happens: with max_age = 0 a step matched a track, spawned another and
\* culled a third
C30_Witness ==
    /\ Stepped
    /\ max_age_ = 0
    /\ Matched # {}
    /\ Len(trail.full) > nT_last
    /\ Len(tracks_) < Len(trail.full)

\* C30, max_age < 0: the labels of a step carry ids of tracks the same step
\* culled
C30_LabelOfCulled ==
    Stepped /\ max_age_ < 0 /\ labels_ # << >> /\ tracks_ = << >>

\* C28 as stated: for every alpha and max_dist the engine is constructed
\* with, the cost written for a pair that passes both gates is at most 1 and
\* below BIG, and a pair the solver assigns is kept by the filter.
C28_AsStated ==
    Stepped =>
        \A i \in 1..nT_last, j \in 1..Len(dets) :
            Allowed(trail.pred[i], dets[j]) =>
                /\ trail.cost[i][j] <= CostOne
                /\ trail.cost[i][j] < BIG

\* C26 as stated: the rectangle of a track is always (x, y, w, h) read from
\* indices (0, 1, 4, 5) of its filter state, after the predict loop and after
\* the step.
C26_AsStated ==
    Stepped =>
        /\ \A i \in 1..nT_last :
              trail.pred[i].rect = StateRect(trail.pred[i].kf.x)
        /\ \A i \in 1..Len(trail.full) :
              trail.full[i].rect = StateRect(trail.full[i].kf.x)
        /\ \A i \in 1..Len(tracks_) :
              tracks_[i].rect = StateRect(tracks_[i].kf.x)

\* a matrix without a cell that is not a number
Finite(cost) == \A i, j \in 1..Len(cost) : cost[i][j] # NaN

\* the passes the two loops of hungarian can make on n rows: inserting row i
\* marks a new column in every pass of the search, and at most i - 1 columns
\* are taken before it; the augmenting loop walks back over marked columns
LoopBound(n) == (n * (n + 1)) \div 2

\* hungarian on this matrix leaves both loops and returns a rowsol of the
\* matrix's size
Completes(cost) ==
    LET Ended(r) == /\ ~r.spin
                    /\ r.searches <= LoopBound(Len(cost))
                    /\ r.hops <= LoopBound(Len(cost))
                    /\ r.searches >= Len(cost)
                    /\ r.hops >= Len(cost)
        Back(o)  == o.returns /\ Len(o.rowsol) = Len(cost)
    IN  Ended(HungarianRun(cost)) /\ Back(hungarian(cost))

\* C31: every step runs to completion: for any numbers of tracks and
\* detections, N = 0 included, the matrix the step builds has finite cells,
\* both loops of hungarian end on it, and the step returns to main's loop,
\* which has written one output object per frame.
C31_RunsToCompletion ==
    /\ pc = "loop"
    /\ Len(dump) = frame
    /\ Finite(trail.cost) /\ Completes(trail.cost)
    /\ Finite(call.cost) /\ Completes(call.cost)

\* C31 happens: the last step of a run solved a matrix of three or more rows
\* with padding, a gated cell and an allowed cell of cost above 0
C31_Witness ==
    /\ frame = MaxFrames
    /\ pc = "loop"
    /\ Len(trail.cost) >= 3
    /\ nT_last # Len(dets)
    /\ \E i \in 1..nT_last, j \in 1..Len(dets) : trail.cost[i][j] = BIG
    /\ \E i \in 1..nT_last, j \in 1..Len(dets) :
          trail.cost[i][j] > 0 /\ trail.cost[i][j] < BIG

\* C31, the case N = 0: a step with no track and no detection returned
C31_EmptyMatrix ==
    Stepped /\ pc = "loop" /\ trail.cost = << >> /\ Len(dump) = frame

====
